---- MODULE Spec2Model ----
(***************************************************************************)
(* The expense-approval backend (Hono handlers over a key-value store) as  *)
(* a state machine.  Every handler is an async function: it runs           *)
(* atomically between two awaits on the key-value store, and requests      *)
(* interleave at those awaits.  Each request slot holds one request and    *)
(* its position (pc) in the handler.                                       *)
(*                                                                         *)
(* Record fields that no handler reads or changes after creation (name,    *)
(* company_id, created_at, category, ...) are left out of the records;     *)
(* every field a handler tests or rewrites is kept, and the amounts of an  *)
(* expense, which the expense form computes.                               *)
(***************************************************************************)
EXTENDS Integers, FiniteSets, Sequences, TLC

\* ------------------------------------------------------------------ bounds
\* Date.now() takes the values 0..MaxClock (milliseconds since the first request).
MaxClock == 1
\* Requests accepted in one behaviour.
MaxRequests == 3
\* Requests accepted in one behaviour when they are served one at a time.
MaxSerial == 2
\* Requests in flight at once.
Slots == {1, 2}

Clock == 0..MaxClock

\* ------------------------------------------------------------------ values
\* An id is its literal prefix and the Date.now() value appended to it
\* (0 for the literal ids of the demo data).
NoId == <<"", 0>>
AdminId == <<"admin-001", 0>>
ManagerId == <<"manager-001", 0>>
EmployeeId == <<"employee-001", 0>>
DemoCompanyId == <<"demo-company-001", 0>>
DemoRuleId == <<"rule-001", 0>>
UserIdAt(t) == <<"user-", t>>
ExpenseIdAt(t) == <<"expense-", t>>
ApprovalIdAt(t) == <<"approval-", t>>
CompanyIdAt(t) == <<"company-", t>>
RuleIdAt(t) == <<"rule-", t>>

\* JavaScript's undefined and null, for the optional comment of a step.
Undefined == "(undefined)"
Null == "(null)"
NoTime == -1
NoAmount == -1

NoUser == [id |-> NoId, email |-> "", role |-> "", manager_id |-> NoId, managerId |-> NoId]
NoExpense ==
  [id |-> NoId, employee_id |-> NoId, amount |-> NoAmount, currency |-> "",
   amount_in_company_currency |-> NoAmount, status |-> ""]
NoStep ==
  [id |-> NoId, expense_id |-> NoId, approver_id |-> NoId, status |-> "",
   sequence |-> 0, comments |-> Undefined, decided_at |-> NoTime]
NoCompany == [id |-> NoId, currency |-> ""]
NoRule == [id |-> NoId, type |-> "", specific_approver_id |-> NoId]

\* The users array of POST /setup.
SeedUsers ==
  << [id |-> AdminId, email |-> "admin@company.com", role |-> "admin",
      manager_id |-> NoId, managerId |-> NoId],
     [id |-> ManagerId, email |-> "manager@company.com", role |-> "manager",
      manager_id |-> NoId, managerId |-> NoId],
     [id |-> EmployeeId, email |-> "employee@company.com", role |-> "employee",
      manager_id |-> ManagerId, managerId |-> NoId] >>

\* The sampleExpenses array of POST /setup.
SeedExpenses ==
  << [id |-> <<"expense-001", 0>>, employee_id |-> EmployeeId, amount |-> 50000,
      currency |-> "USD", amount_in_company_currency |-> 50000, status |-> "approved"],
     [id |-> <<"expense-002", 0>>, employee_id |-> EmployeeId, amount |-> 120000,
      currency |-> "USD", amount_in_company_currency |-> 120000, status |-> "pending"] >>

\* ------------------------------------------------------------------ currency conversion
\* Amounts are counted in thousandths of a currency unit and rates in
\* ten-thousandths, so that the arithmetic of the code is exact on them.
AmountUnit == 1000
RateUnit == 10000
\* Amounts 0.000 .. MaxAmount/1000 are converted.
MaxAmount == 250
\* A quotient num/den that the code does not round; den = 0 stands for none.
NoQuotient == <<0, 0>>

\* conversionRates of GET /convert.
ServerRates ==
  [USD |-> [EUR |-> 8500, GBP |-> 7300, JPY |-> 1100000, USD |-> 10000],
   EUR |-> [USD |-> 11800, GBP |-> 8600, JPY |-> 1290000, EUR |-> 10000],
   GBP |-> [USD |-> 13700, EUR |-> 11600, JPY |-> 1510000, GBP |-> 10000],
   JPY |-> [USD |-> 91, EUR |-> 77, GBP |-> 66, JPY |-> 10000]]

\* conversionRates of the client helper convertCurrency.
ClientRates ==
  [USD |-> [EUR |-> 8500, GBP |-> 7300, JPY |-> 1100000, USD |-> 10000],
   EUR |-> [USD |-> 11800, GBP |-> 8600, JPY |-> 1290000, EUR |-> 10000],
   GBP |-> [USD |-> 13700, EUR |-> 11600, JPY |-> 1510000, GBP |-> 10000],
   JPY |-> [USD |-> 91, EUR |-> 77, GBP |-> 66, JPY |-> 10000]]

\* simulatedRates of the CurrencyConverter component.
WidgetRates ==
  [USD |-> [EUR |-> 8500, GBP |-> 7300, JPY |-> 1100000, CAD |-> 12500, AUD |-> 13500],
   EUR |-> [USD |-> 11800, GBP |-> 8600, JPY |-> 1290000, CAD |-> 14700, AUD |-> 15900],
   GBP |-> [USD |-> 13700, EUR |-> 11600, JPY |-> 1500000, CAD |-> 17100, AUD |-> 18500]]

\* table[from]?.[to]: the entry, or 0 for undefined.
Entry(table, from, to) ==
  IF from \in DOMAIN table /\ to \in DOMAIN table[from] THEN table[from][to] ELSE 0

\* Mutant of Rate: a pair without an entry gets the rate 0.
RateNoFallback(table, from, to) == Entry(table, from, to)

\* conversionRates[from]?.[to] || 1
Rate(table, from, to) ==
  IF Entry(table, from, to) # 0 THEN Entry(table, from, to) ELSE RateUnit

\* Math.round(num / den) for an even den > 0: the nearest integer, a half goes up.
MathRound(num, den) == (num + den \div 2) \div den

\* Math.round(amount * rate * 100) / 100
RoundedProduct(amount, rate) ==
  MathRound(amount * rate, (AmountUnit \div 100) * RateUnit) * (AmountUnit \div 100)

\* GET /convert/:from/:to/:amount: convertedAmount.
ServerConvert(amount, from, to) == RoundedProduct(amount, Rate(ServerRates, from, to))

\* convertCurrency of the client helper: if (fromCurrency === toCurrency) return amount.
ClientConvert(amount, from, to) ==
  IF from = to THEN amount ELSE RoundedProduct(amount, Rate(ClientRates, from, to))

\* rate = 0.5 + Math.random() * 2: some of the values in [0.5, 2.5).
RandomRates == {5000, 10000, 17500}

\* CurrencyConverter.convertCurrency: the values setConvertedAmount can receive,
\* amount * rate unrounded, as quotients of thousandths.
WidgetConvert(amount, from, to) ==
  IF amount = 0 \/ from = to
    THEN {<<amount, 1>>}
    ELSE IF Entry(WidgetRates, from, to) # 0
      THEN {<<amount * Entry(WidgetRates, from, to), RateUnit>>}
      ELSE IF Entry(WidgetRates, to, from) # 0
        THEN {<<amount * RateUnit, Entry(WidgetRates, to, from)>>}
        ELSE {<<amount * rate, RateUnit>> : rate \in RandomRates}

\* The currencies and amounts converted.
ConvCurrencies == {"USD", "EUR", "JPY", "CAD", "CHF"}
ConvAmounts == 0..MaxAmount

NoConv ==
  [amount |-> 0, from |-> "", to |-> "",
   server |-> NoAmount, client |-> NoAmount, widget |-> NoQuotient]

\* ------------------------------------------------------------------ inputs
\* Bodies and parameters the clients send.
SubmitEmployees == {EmployeeId} \cup {UserIdAt(t) : t \in Clock}
DecideOutcomes == {"approved", "rejected"}
DecideComments == {"", "ok"}

\* const companyCurrency = 'USD' of the expense form.
FormCompanyCurrency == "USD"
\* expenseData of ExpenseForm.handleSubmit: the amount is converted by GET /convert
\* before the expense is posted; the form sends no status.
FormBody(employee_id, amount, currency) ==
  [employee_id |-> employee_id, amount |-> amount, currency |-> currency,
   amount_in_company_currency |-> ServerConvert(amount, currency, FormCompanyCurrency),
   status |-> Undefined]
\* The form's bodies for the amount 120.00 USD.
SubmitBodies == {FormBody(e, 120000, "USD") : e \in SubmitEmployees}
\* Bodies any holder of the API key can post: the form's bodies in two
\* currencies, a body without employee_id, a body that carries a status.
ApiBodies ==
  {FormBody(EmployeeId, 120000, c) : c \in {"USD", "EUR"}}
  \cup {FormBody(NoId, 120000, "USD")}
  \cup {[FormBody(EmployeeId, 120000, "USD") EXCEPT !.status = "approved"]}
\* The status of a POST /approvals body is any JSON string.
ApiStatuses == {"approved", "cancelled"}
ApiComments == {"ok"}
\* Bodies of POST /company and POST /approval-rules (the admin panel's newRule).
CompanyCurrencies == {"EUR"}
RuleTypes == {"percentage"}
NewUserEmails == {"new@company.com"}
NewUserManagers == {NoId, ManagerId}
LookupEmails == {"employee@company.com", "new@company.com"}
DeleteUserIds == {EmployeeId} \cup {UserIdAt(t) : t \in Clock}

\* ------------------------------------------------------------------ state
VARIABLES
  now,        \* the value Date.now() returns
  users,      \* records under user:<id>
  emailIndex, \* records under user:email:<email>
  expenses,   \* records under expense:<id>
  steps,      \* records under approval_step:<id>
  companies,  \* records under company:<id>
  rules,      \* records under approval_rule:<id>
  req,        \* per slot: the request in flight, its pc and its locals
  sent,       \* the response sent last: the handler and its status code
  accepted,   \* requests accepted so far
  conv,       \* one conversion: its input and what each implementation returned
  client      \* the browser: session, local storage, page on screen, component state

store == <<users, emailIndex, expenses, steps, companies, rules>>
vars == <<now, users, emailIndex, expenses, steps, companies, rules, req, sent, accepted, conv, client>>

\* kv.set and kv.del on one key prefix of the store.
KvSet(f, k, v) == [x \in (DOMAIN f) \cup {k} |-> IF x = k THEN v ELSE f[x]]
KvDel(f, k) == [x \in (DOMAIN f) \ {k} |-> f[x]]
\* kv.get: the record, or none.
KvGet(f, k, none) == IF k \in DOMAIN f THEN f[k] ELSE none

Empty == [x \in {} |-> 0]

IdleReq ==
  [op |-> "none", pc |-> "idle",
   id |-> NoId, email |-> "", outcome |-> "", comments |-> "",
   exp |-> NoExpense, step |-> NoStep, usr |-> NoUser, i |-> 0,
   company |-> NoCompany, rule |-> NoRule]

\* The records a completed POST /setup leaves in an empty store.
DemoCompany == [id |-> DemoCompanyId, currency |-> "USD"]
DemoRule == [id |-> DemoRuleId, type |-> "specific", specific_approver_id |-> ManagerId]
DemoUsers == [k \in {SeedUsers[j].id : j \in 1..Len(SeedUsers)} |->
                (CHOOSE u \in {SeedUsers[j] : j \in 1..Len(SeedUsers)} : u.id = k)]
DemoEmails == [e \in {SeedUsers[j].email : j \in 1..Len(SeedUsers)} |->
                (CHOOSE u \in {SeedUsers[j] : j \in 1..Len(SeedUsers)} : u.email = e).id]
DemoExpenses == [k \in {SeedExpenses[j].id : j \in 1..Len(SeedExpenses)} |->
                (CHOOSE x \in {SeedExpenses[j] : j \in 1..Len(SeedExpenses)} : x.id = k)]

\* ------------------------------------------------------------------ the client: values
\* Handlers of one kind a page can have in flight at once.
MaxHandlers == 2

\* One request of the client: its method and the segments of its path below
\* API_BASE_URL.
\* A path segment is written as an id is, a text and a number: 0 for a literal.
Lit(texts) == [i \in 1..Len(texts) |-> <<texts[i], 0>>]
Param == ":param"
\* The routes the server registers: a segment starting with ':' takes any value.
Routes ==
  { [method |-> "GET", path |-> Lit(<<"health">>)],
    [method |-> "POST", path |-> Lit(<<"setup">>)],
    [method |-> "GET", path |-> Lit(<<"convert", Param, Param, Param>>)],
    [method |-> "GET", path |-> Lit(<<"user", Param>>)],
    [method |-> "GET", path |-> Lit(<<"expenses", Param>>)],
    [method |-> "POST", path |-> Lit(<<"expenses">>)],
    [method |-> "GET", path |-> Lit(<<"approvals", Param>>)],
    [method |-> "POST", path |-> Lit(<<"approvals", Param>>)],
    [method |-> "POST", path |-> Lit(<<"ocr", "process-receipt">>)],
    [method |-> "GET", path |-> Lit(<<"company">>)],
    [method |-> "POST", path |-> Lit(<<"company">>)],
    [method |-> "GET", path |-> Lit(<<"users">>)],
    [method |-> "POST", path |-> Lit(<<"users">>)],
    [method |-> "DELETE", path |-> Lit(<<"users", Param>>)],
    [method |-> "GET", path |-> Lit(<<"approval-rules">>)],
    [method |-> "POST", path |-> Lit(<<"approval-rules">>)],
    [method |-> "GET", path |-> Lit(<<"currencies">>)],
    [method |-> "GET", path |-> Lit(<<"analytics", "dashboard", Param>>)] }
\* The router: a request is served when a route has its method and matches its
\* path segment by segment.
Matches(route, call) ==
  /\ route.method = call.method
  /\ Len(route.path) = Len(call.path)
  /\ \A i \in 1..Len(route.path) :
       route.path[i] = <<Param, 0>> \/ route.path[i] = call.path[i]
Served(call) == \E route \in Routes : Matches(route, call)

\* localStorage's 'expense_user' item: nothing, or the text JSON.stringify made.
NoItem == <<>>
JSONStringify(v) == <<v>>
JSONParse(text) == text[1]

\* What the user can type and click.
Pages == {"dashboard", "expenses", "approvals", "settings", "login"}
SignInEmails == {"admin@company.com", "manager@company.com", "employee@company.com",
                 "new@company.com"}
\* The steps GET /approvals/:userId lists for the signed-in approver.
ListedSteps == {ApprovalIdAt(0), ApprovalIdAt(1)}

\* The bodies GET /user/:email answers 200 with: the record, or null when the
\* index entry names no record.
UserBodies(email) == {DemoUsers[DemoEmails[email]], NoUser}

\* The client when the app has just been loaded: AuthProvider, AppContent and
\* every page component with the initial values of their useState calls,
\* initializeApp waiting for POST /setup.
LoadedClient ==
  [user |-> NoUser, storage |-> NoItem, loading |-> TRUE,
   auth |-> [pc |-> "initialize", email |-> "", valid |-> FALSE],
   currentPage |-> "dashboard",
   call |-> [method |-> "POST", path |-> Lit(<<"setup">>)],
   loginError |-> "",
   pageLoading |-> TRUE, approvals |-> {}, processingId |-> NoId,
   decides |-> [h \in 1..MaxHandlers |-> [pc |-> "idle", id |-> NoId]],
   formLoading |-> FALSE, formError |-> "", form |-> "idle",
   isProcessing |-> FALSE, ocrResult |-> "", ocr |-> 0,
   panelLoading |-> TRUE, panelUsers |-> {}, panel |-> "company"]

\* The key-value store outlives the server: the first request finds it empty (a
\* new deployment) or holding the demo data of an earlier app load.
Init ==
  /\ now = 0
  /\ \/ /\ users = Empty
        /\ emailIndex = Empty
        /\ expenses = Empty
        /\ companies = Empty
        /\ rules = Empty
     \/ /\ users = DemoUsers
        /\ emailIndex = DemoEmails
        /\ expenses = DemoExpenses
        /\ companies = [k \in {DemoCompanyId} |-> DemoCompany]
        /\ rules = [k \in {DemoRuleId} |-> DemoRule]
  /\ steps = Empty
  /\ req = [r \in Slots |-> IdleReq]
  /\ sent = [op |-> "none", code |-> 0]
  /\ accepted = 0
  /\ conv = NoConv
  /\ client = LoadedClient

Free(r) == req[r].pc = "idle"
\* Slots are interchangeable: a request takes the lowest free one.
CanAccept(r) ==
  /\ Free(r)
  /\ \A r2 \in Slots : Free(r2) => r <= r2
  /\ accepted < MaxRequests

\* return c.json(..., code): the response leaves and the slot is free again.
Respond(r, c) ==
  /\ req' = [req EXCEPT ![r] = IdleReq]
  /\ sent' = [op |-> req[r].op, code |-> c]
\* The handler goes on to its next await.
Goto(r, q) ==
  /\ req' = [req EXCEPT ![r] = q]
  /\ UNCHANGED sent

\* Date.now() advances.
Tick ==
  /\ now < MaxClock
  /\ now' = now + 1
  /\ UNCHANGED <<client, conv, users, emailIndex, expenses, steps, companies, rules, req, sent, accepted>>


\* ------------------------------------------------------------------ POST /setup
SetupStart(r) ==
  /\ CanAccept(r)
  /\ req' = [req EXCEPT ![r] = [IdleReq EXCEPT !.op = "setup", !.pc = "setup_company"]]
  /\ accepted' = accepted + 1
  /\ UNCHANGED <<client, conv, now, users, emailIndex, expenses, steps, companies, rules, sent>>

SetupCompany(r) ==
  /\ req[r].pc = "setup_company"
  /\ companies' = KvSet(companies, DemoCompanyId, DemoCompany)
  /\ Goto(r, [req[r] EXCEPT !.pc = "setup_user", !.i = 1])
  /\ UNCHANGED <<client, conv, now, users, emailIndex, expenses, steps, rules, accepted>>

SetupUser(r) ==
  /\ req[r].pc = "setup_user"
  /\ users' = KvSet(users, SeedUsers[req[r].i].id, SeedUsers[req[r].i])
  /\ Goto(r, [req[r] EXCEPT !.pc = "setup_email"])
  /\ UNCHANGED <<client, conv, now, emailIndex, expenses, steps, companies, rules, accepted>>

SetupEmail(r) ==
  /\ req[r].pc = "setup_email"
  /\ emailIndex' = KvSet(emailIndex, SeedUsers[req[r].i].email, SeedUsers[req[r].i].id)
  /\ IF req[r].i < Len(SeedUsers)
       THEN Goto(r, [req[r] EXCEPT !.pc = "setup_user", !.i = @ + 1])
       ELSE Goto(r, [req[r] EXCEPT !.pc = "setup_rule", !.i = 0])
  /\ UNCHANGED <<client, conv, now, users, expenses, steps, companies, rules, accepted>>

SetupRule(r) ==
  /\ req[r].pc = "setup_rule"
  /\ rules' = KvSet(rules, DemoRuleId, DemoRule)
  /\ Goto(r, [req[r] EXCEPT !.pc = "setup_expense", !.i = 1])
  /\ UNCHANGED <<client, conv, now, users, emailIndex, expenses, steps, companies, accepted>>

SetupExpense(r) ==
  /\ req[r].pc = "setup_expense"
  /\ expenses' = KvSet(expenses, SeedExpenses[req[r].i].id, SeedExpenses[req[r].i])
  /\ IF req[r].i < Len(SeedExpenses)
       THEN Goto(r, [req[r] EXCEPT !.i = @ + 1])
       ELSE Respond(r, 200)
  /\ UNCHANGED <<client, conv, now, users, emailIndex, steps, companies, rules, accepted>>

\* ------------------------------------------------------------------ POST /expenses
\* const expense = { id: expenseId, ...expenseData, status: 'pending', ... }
NewExpense(expenseId, expenseData) ==
  [id |-> expenseId, employee_id |-> expenseData.employee_id,
   amount |-> expenseData.amount, currency |-> expenseData.currency,
   amount_in_company_currency |-> expenseData.amount_in_company_currency,
   status |-> "pending"]

\* Mutant of HasManager: the manager_id test is dropped, if (user).
HasManagerAnyUser(user) == user # NoUser

\* Mutant of HasManager: a stored approval rule asks for a step as well.
HasManagerOrRule(user) == (user # NoUser /\ user.manager_id # NoId) \/ rules # Empty

\* if (user && user.manager_id)
HasManager(user) == user # NoUser /\ user.manager_id # NoId

\* const approvalStep = { id, expense_id, approver_id: user.manager_id, status: 'pending', sequence: 1 }
NewApprovalStep(approvalStepId, expenseId, user) ==
  [id |-> approvalStepId, expense_id |-> expenseId, approver_id |-> user.manager_id,
   status |-> "pending", sequence |-> 1, comments |-> Undefined, decided_at |-> NoTime]

\* The body is parsed and the expense is built with an id drawn from the clock.
SubmitWith(r, bodies) ==
  /\ CanAccept(r)
  /\ \E expenseData \in bodies :
       req' = [req EXCEPT ![r] =
                 [IdleReq EXCEPT !.op = "submit", !.pc = "submit_set_expense",
                                 !.id = expenseData.employee_id,
                                 !.exp = NewExpense(ExpenseIdAt(now), expenseData)]]
  /\ accepted' = accepted + 1
  /\ UNCHANGED <<client, conv, now, users, emailIndex, expenses, steps, companies, rules, sent>>

\* The expense form posts.
SubmitStart(r) == SubmitWith(r, SubmitBodies)
\* Any client of the API posts.
SubmitApiStart(r) == SubmitWith(r, ApiBodies)

SubmitSetExpense(r) ==
  /\ req[r].pc = "submit_set_expense"
  /\ expenses' = KvSet(expenses, req[r].exp.id, req[r].exp)
  /\ Goto(r, [req[r] EXCEPT !.pc = "submit_get_user"])
  /\ UNCHANGED <<client, conv, now, users, emailIndex, steps, companies, rules, accepted>>

\* The user is read; with a manager_id the step is built with an id drawn from
\* the clock, without one the handler answers with the expense.
SubmitGetUser(r) ==
  /\ req[r].pc = "submit_get_user"
  /\ LET user == KvGet(users, req[r].id, NoUser) IN
       IF HasManager(user)
         THEN Goto(r, [req[r] EXCEPT !.pc = "submit_set_step",
                         !.step = NewApprovalStep(ApprovalIdAt(now), req[r].exp.id, user)])
         ELSE Respond(r, 200)
  /\ UNCHANGED <<client, conv, now, users, emailIndex, expenses, steps, companies, rules, accepted>>

SubmitSetStep(r) ==
  /\ req[r].pc = "submit_set_step"
  /\ steps' = KvSet(steps, req[r].step.id, req[r].step)
  /\ Respond(r, 200)
  /\ UNCHANGED <<client, conv, now, users, emailIndex, expenses, companies, rules, accepted>>

\* ------------------------------------------------------------------ POST /approvals/:approvalId
\* comments: comments || null
StoredComment(comments) == IF comments = "" \/ comments = Undefined THEN Null ELSE comments

\* Mutant of UpdatedApproval: the step read is not spread into the new record,
\* { id, status, comments, decided_at }.
UpdatedApprovalNoSpread(approval, status, comments, t) ==
  [NoStep EXCEPT !.id = approval.id, !.status = status,
                 !.comments = StoredComment(comments), !.decided_at = t]

\* const updatedApproval = { ...approval, status, comments: comments || null, decided_at }
UpdatedApproval(approval, status, comments, t) ==
  [approval EXCEPT !.status = status, !.comments = StoredComment(comments), !.decided_at = t]

\* Mutant of UpdatedExpense: the status is left out of the rebuilt expense.
UpdatedExpenseKeepsStatus(expense, status) == expense

\* const updatedExpense = { ...expense, status }
UpdatedExpense(expense, status) == [expense EXCEPT !.status = status]

DecideWith(r, statuses, comments) ==
  /\ CanAccept(r)
  /\ \E t \in Clock, o \in statuses, c \in comments :
       req' = [req EXCEPT ![r] =
                 [IdleReq EXCEPT !.op = "decide", !.pc = "decide_get_step",
                                 !.id = ApprovalIdAt(t), !.outcome = o, !.comments = c]]
  /\ accepted' = accepted + 1
  /\ UNCHANGED <<client, conv, now, users, emailIndex, expenses, steps, companies, rules, sent>>

\* The approvals page decides (ApiClient.processApproval).
DecideStart(r) == DecideWith(r, DecideOutcomes, DecideComments)
\* Any client of the API decides.
DecideApiStart(r) == DecideWith(r, ApiStatuses, ApiComments)

\* Mutant of DecideGetStep: the if (!approval) return 404 is missing.
DecideGetStepNoCheck(r) ==
  /\ req[r].pc = "decide_get_step"
  /\ Goto(r, [req[r] EXCEPT !.pc = "decide_set_step",
                 !.step = UpdatedApproval(KvGet(steps, req[r].id, NoStep), req[r].outcome,
                                          req[r].comments, now)])
  /\ UNCHANGED <<client, conv, now, users, emailIndex, expenses, steps, companies, rules, accepted>>

\* Mutant of DecideGetStep: a step that has been decided is refused with 409.
DecideGetStepOnce(r) ==
  /\ req[r].pc = "decide_get_step"
  /\ LET approval == KvGet(steps, req[r].id, NoStep) IN
       IF approval = NoStep
         THEN Respond(r, 404)
         ELSE IF approval.decided_at # NoTime
           THEN Respond(r, 409)
           ELSE Goto(r, [req[r] EXCEPT !.pc = "decide_set_step",
                           !.step = UpdatedApproval(approval, req[r].outcome,
                                                    req[r].comments, now)])
  /\ UNCHANGED <<client, conv, now, users, emailIndex, expenses, steps, companies, rules, accepted>>

\* if (!approval) return 404; otherwise the updated step is built from the step read.
DecideGetStep(r) ==
  /\ req[r].pc = "decide_get_step"
  /\ LET approval == KvGet(steps, req[r].id, NoStep) IN
       IF approval = NoStep
         THEN Respond(r, 404)
         ELSE Goto(r, [req[r] EXCEPT !.pc = "decide_set_step",
                         !.step = UpdatedApproval(approval, req[r].outcome,
                                                  req[r].comments, now)])
  /\ UNCHANGED <<client, conv, now, users, emailIndex, expenses, steps, companies, rules, accepted>>

DecideSetStep(r) ==
  /\ req[r].pc = "decide_set_step"
  /\ steps' = KvSet(steps, req[r].id, req[r].step)
  /\ Goto(r, [req[r] EXCEPT !.pc = "decide_get_expense"])
  /\ UNCHANGED <<client, conv, now, users, emailIndex, expenses, companies, rules, accepted>>

\* The expense of the step read earlier is read; if (expense) it is rebuilt with
\* the new status, otherwise the handler answers with the updated step.
DecideGetExpense(r) ==
  /\ req[r].pc = "decide_get_expense"
  /\ LET expense == KvGet(expenses, req[r].step.expense_id, NoExpense) IN
       IF expense # NoExpense
         THEN Goto(r, [req[r] EXCEPT !.pc = "decide_set_expense",
                         !.exp = UpdatedExpense(expense, req[r].outcome)])
         ELSE Respond(r, 200)
  /\ UNCHANGED <<client, conv, now, users, emailIndex, expenses, steps, companies, rules, accepted>>

DecideSetExpense(r) ==
  /\ req[r].pc = "decide_set_expense"
  /\ expenses' = KvSet(expenses, req[r].step.expense_id, req[r].exp)
  /\ Respond(r, 200)
  /\ UNCHANGED <<client, conv, now, users, emailIndex, steps, companies, rules, accepted>>

\* ------------------------------------------------------------------ GET /approvals/:userId
\* pendingApprovals: the steps of the scan with approver_id === userId and
\* status === 'pending'.
PendingApprovals(userId) ==
  {k \in DOMAIN steps : steps[k].approver_id = userId /\ steps[k].status = "pending"}

\* ------------------------------------------------------------------ POST /users
\* const user = { id: userId, ...userData, ... }: the body is the admin panel's
\* newUser, { name, email, role, managerId }.
NewUser(userId, email, managerId) ==
  [id |-> userId, email |-> email, role |-> "employee", manager_id |-> NoId,
   managerId |-> managerId]

CreateUserStart(r) ==
  /\ CanAccept(r)
  /\ \E e \in NewUserEmails, m \in NewUserManagers :
       req' = [req EXCEPT ![r] =
                 [IdleReq EXCEPT !.op = "createUser", !.pc = "create_set_user",
                                 !.email = e, !.usr = NewUser(UserIdAt(now), e, m)]]
  /\ accepted' = accepted + 1
  /\ UNCHANGED <<client, conv, now, users, emailIndex, expenses, steps, companies, rules, sent>>

CreateUserSetUser(r) ==
  /\ req[r].pc = "create_set_user"
  /\ users' = KvSet(users, req[r].usr.id, req[r].usr)
  /\ Goto(r, [req[r] EXCEPT !.pc = "create_set_email"])
  /\ UNCHANGED <<client, conv, now, emailIndex, expenses, steps, companies, rules, accepted>>

CreateUserSetEmail(r) ==
  /\ req[r].pc = "create_set_email"
  /\ emailIndex' = KvSet(emailIndex, req[r].email, req[r].usr.id)
  /\ Respond(r, 200)
  /\ UNCHANGED <<client, conv, now, users, expenses, steps, companies, rules, accepted>>

\* ------------------------------------------------------------------ DELETE /users/:userId
DeleteUserStart(r) ==
  /\ CanAccept(r)
  /\ \E u \in DeleteUserIds :
       req' = [req EXCEPT ![r] =
                 [IdleReq EXCEPT !.op = "deleteUser", !.pc = "delete_get_user", !.id = u]]
  /\ accepted' = accepted + 1
  /\ UNCHANGED <<client, conv, now, users, emailIndex, expenses, steps, companies, rules, sent>>

\* if (!user) return 404
DeleteUserGet(r) ==
  /\ req[r].pc = "delete_get_user"
  /\ LET user == KvGet(users, req[r].id, NoUser) IN
       IF user = NoUser
         THEN Respond(r, 404)
         ELSE Goto(r, [req[r] EXCEPT !.pc = "delete_del_user", !.usr = user])
  /\ UNCHANGED <<client, conv, now, users, emailIndex, expenses, steps, companies, rules, accepted>>

DeleteUserDelUser(r) ==
  /\ req[r].pc = "delete_del_user"
  /\ users' = KvDel(users, req[r].id)
  /\ Goto(r, [req[r] EXCEPT !.pc = "delete_del_email"])
  /\ UNCHANGED <<client, conv, now, emailIndex, expenses, steps, companies, rules, accepted>>

\* Mutant of DeleteUserDelEmail: the email-lookup record is not deleted.
DeleteUserKeepsEmail(r) ==
  /\ req[r].pc = "delete_del_email"
  /\ Respond(r, 200)
  /\ UNCHANGED <<client, conv, now, users, emailIndex, expenses, steps, companies, rules, accepted>>

DeleteUserDelEmail(r) ==
  /\ req[r].pc = "delete_del_email"
  /\ emailIndex' = KvDel(emailIndex, req[r].usr.email)
  /\ Respond(r, 200)
  /\ UNCHANGED <<client, conv, now, users, expenses, steps, companies, rules, accepted>>

\* ------------------------------------------------------------------ GET /user/:email
GetUserStart(r) ==
  /\ CanAccept(r)
  /\ \E e \in LookupEmails :
       req' = [req EXCEPT ![r] =
                 [IdleReq EXCEPT !.op = "getUser", !.pc = "lookup_get_email", !.email = e]]
  /\ accepted' = accepted + 1
  /\ UNCHANGED <<client, conv, now, users, emailIndex, expenses, steps, companies, rules, sent>>

\* if (!userId) return 404
GetUserGetEmail(r) ==
  /\ req[r].pc = "lookup_get_email"
  /\ LET userId == KvGet(emailIndex, req[r].email, NoId) IN
       IF userId = NoId
         THEN Respond(r, 404)
         ELSE Goto(r, [req[r] EXCEPT !.pc = "lookup_get_user", !.id = userId])
  /\ UNCHANGED <<client, conv, now, users, emailIndex, expenses, steps, companies, rules, accepted>>

\* return c.json(user)
GetUserGetUser(r) ==
  /\ req[r].pc = "lookup_get_user"
  /\ Respond(r, 200)
  /\ UNCHANGED <<client, conv, now, users, emailIndex, expenses, steps, companies, rules, accepted>>

\* ------------------------------------------------------------------ POST /company, GET /company
\* const company = { id: companyId, ...companyData, createdAt }
NewCompany(companyId, currency) == [id |-> companyId, currency |-> currency]

CreateCompanyStart(r) ==
  /\ CanAccept(r)
  /\ \E c \in CompanyCurrencies :
       req' = [req EXCEPT ![r] =
                 [IdleReq EXCEPT !.op = "createCompany", !.pc = "company_set",
                                 !.company = NewCompany(CompanyIdAt(now), c)]]
  /\ accepted' = accepted + 1
  /\ UNCHANGED <<client, conv, now, users, emailIndex, expenses, steps, companies, rules, sent>>

CreateCompanySet(r) ==
  /\ req[r].pc = "company_set"
  /\ companies' = KvSet(companies, req[r].company.id, req[r].company)
  /\ Respond(r, 200)
  /\ UNCHANGED <<client, conv, now, users, emailIndex, expenses, steps, rules, accepted>>

GetCompanyStart(r) ==
  /\ CanAccept(r)
  /\ req' = [req EXCEPT ![r] = [IdleReq EXCEPT !.op = "getCompany", !.pc = "company_scan"]]
  /\ accepted' = accepted + 1
  /\ UNCHANGED <<client, conv, now, users, emailIndex, expenses, steps, companies, rules, sent>>

\* companies[0] || null: the scan returns the records in no specified order, so
\* the body is any of the company records (null without one).
CompanyBodies == IF companies = Empty THEN {NoCompany} ELSE {companies[k] : k \in DOMAIN companies}

\* return c.json(companies[0] || null); the body is kept in the slot until the
\* response has left.
GetCompanyScan(r) ==
  /\ req[r].pc = "company_scan"
  /\ \E company \in CompanyBodies :
       Goto(r, [req[r] EXCEPT !.pc = "company_reply", !.company = company])
  /\ UNCHANGED <<client, conv, now, users, emailIndex, expenses, steps, companies, rules, accepted>>

GetCompanyReply(r) ==
  /\ req[r].pc = "company_reply"
  /\ Respond(r, 200)
  /\ UNCHANGED <<client, conv, now, users, emailIndex, expenses, steps, companies, rules, accepted>>

\* ------------------------------------------------------------------ POST /approval-rules, GET /approval-rules
\* const rule = { id: ruleId, ...ruleData, companyId, createdAt }
NewRule(ruleId, type) == [id |-> ruleId, type |-> type, specific_approver_id |-> NoId]

CreateRuleStart(r) ==
  /\ CanAccept(r)
  /\ \E t \in RuleTypes :
       req' = [req EXCEPT ![r] =
                 [IdleReq EXCEPT !.op = "createRule", !.pc = "rule_set",
                                 !.rule = NewRule(RuleIdAt(now), t)]]
  /\ accepted' = accepted + 1
  /\ UNCHANGED <<client, conv, now, users, emailIndex, expenses, steps, companies, rules, sent>>

CreateRuleSet(r) ==
  /\ req[r].pc = "rule_set"
  /\ rules' = KvSet(rules, req[r].rule.id, req[r].rule)
  /\ Respond(r, 200)
  /\ UNCHANGED <<client, conv, now, users, emailIndex, expenses, steps, companies, accepted>>

GetRulesStart(r) ==
  /\ CanAccept(r)
  /\ req' = [req EXCEPT ![r] = [IdleReq EXCEPT !.op = "getRules", !.pc = "rules_scan"]]
  /\ accepted' = accepted + 1
  /\ UNCHANGED <<client, conv, now, users, emailIndex, expenses, steps, companies, rules, sent>>

\* return c.json(rules)
GetRulesScan(r) ==
  /\ req[r].pc = "rules_scan"
  /\ Respond(r, 200)
  /\ UNCHANGED <<client, conv, now, users, emailIndex, expenses, steps, companies, rules, accepted>>

\* ------------------------------------------------------------------ store failures
\* Mutant of KvFail: the catch of POST /expenses deletes the expense it wrote.
KvFailRollback(r) ==
  /\ ~Free(r)
  /\ Respond(r, 500)
  /\ expenses' = IF req[r].pc \in {"submit_get_user", "submit_set_step"}
                   THEN KvDel(expenses, req[r].exp.id)
                   ELSE expenses
  /\ UNCHANGED <<client, conv, now, users, emailIndex, steps, companies, rules, accepted>>

\* Every pc other than idle waits on a call of the key-value store; the call can
\* throw, and the handler's catch answers 500 without undoing anything.
KvFail(r) ==
  /\ ~Free(r)
  /\ Respond(r, 500)
  /\ UNCHANGED <<client, conv, now, users, emailIndex, expenses, steps, companies, rules, accepted>>

\* ------------------------------------------------------------------ the client: what is rendered
ProtectedRouteAnyRole(c, allowedRoles, children) ==
  IF c.loading THEN "LoadingSpinner"
  ELSE IF c.user = NoUser THEN "Access Denied"
  ELSE children

\* ProtectedRoute: the children only for a signed-in user with an allowed role.
ProtectedRoute(c, allowedRoles, children) ==
  IF c.loading THEN "LoadingSpinner"
  ELSE IF c.user = NoUser THEN "Access Denied"
  ELSE IF c.user.role \notin allowedRoles THEN "Access Denied"
  ELSE children

\* AppContent.renderCurrentPage.
renderCurrentPage(c) ==
  CASE c.currentPage = "dashboard" -> "Dashboard"
    [] c.currentPage = "expenses" -> "ExpenseForm"
    [] c.currentPage = "approvals" -> ProtectedRoute(c, {"manager", "admin"}, "ApprovalsPage")
    [] c.currentPage = "settings" -> ProtectedRoute(c, {"admin"}, "AdminPanel")
    [] OTHER -> "Dashboard"

\* AppContent: the component on screen.
AppContent(c) ==
  IF c.loading THEN "LoadingSpinner"
  ELSE IF c.user = NoUser
       THEN IF c.currentPage = "login" THEN "LoginPage" ELSE "SignupPage"
       ELSE renderCurrentPage(c)

\* ApprovalsPage's own render: its spinner, its Access Denied card, or the list.
ApprovalsPage(c) ==
  IF c.pageLoading THEN "LoadingSpinner"
  ELSE IF c.user.role # "manager" /\ c.user.role # "admin" THEN "Access Denied"
  ELSE "Pending Approvals"

\* What the user sees.
OnScreen(c) ==
  IF AppContent(c) = "ApprovalsPage" THEN ApprovalsPage(c) ELSE AppContent(c)

\* A component that is not on screen is unmounted: when it is rendered again
\* its state starts from the useState defaults, and what its handlers still in
\* flight set is lost.
Mounted(c) ==
  LET a == AppContent(c) IN
  [c EXCEPT
     !.loginError = IF a = "LoginPage" THEN @ ELSE LoadedClient.loginError,
     !.pageLoading = IF a = "ApprovalsPage" THEN @ ELSE LoadedClient.pageLoading,
     !.approvals = IF a = "ApprovalsPage" THEN @ ELSE LoadedClient.approvals,
     !.processingId = IF a = "ApprovalsPage" THEN @ ELSE LoadedClient.processingId,
     !.decides = IF a = "ApprovalsPage" THEN @ ELSE LoadedClient.decides,
     !.formLoading = IF a = "ExpenseForm" THEN @ ELSE LoadedClient.formLoading,
     !.formError = IF a = "ExpenseForm" THEN @ ELSE LoadedClient.formError,
     !.form = IF a = "ExpenseForm" THEN @ ELSE LoadedClient.form,
     !.isProcessing = IF a = "ExpenseForm" THEN @ ELSE LoadedClient.isProcessing,
     !.ocrResult = IF a = "ExpenseForm" THEN @ ELSE LoadedClient.ocrResult,
     !.ocr = IF a = "ExpenseForm" THEN @ ELSE LoadedClient.ocr,
     !.panelLoading = IF a = "AdminPanel" THEN @ ELSE LoadedClient.panelLoading,
     !.panelUsers = IF a = "AdminPanel" THEN @ ELSE LoadedClient.panelUsers,
     !.panel = IF a = "AdminPanel" THEN @ ELSE LoadedClient.panel]

\* The page is loaded again: memory starts afresh, local storage stays.
Reload ==
  /\ client' = [LoadedClient EXCEPT !.storage = client.storage]
  /\ UNCHANGED <<conv, now, users, emailIndex, expenses, steps, companies, rules, req, sent, accepted>>

\* ------------------------------------------------------------------ AuthProvider
\* initializeApp after initializeDemoData resolved: the stored session is read.
InitializeAppRestore ==
  /\ client.auth.pc = "initialize"
  /\ LET storedUser == client.storage IN
     client' = Mounted([client EXCEPT
                  !.user = IF storedUser # NoItem THEN JSONParse(storedUser) ELSE @,
                  !.loading = FALSE,
                  !.auth = [pc |-> "idle", email |-> "", valid |-> FALSE]])
  /\ UNCHANGED <<conv, now, users, emailIndex, expenses, steps, companies, rules, req, sent, accepted>>

\* initializeApp when initializeDemoData threw (POST /setup failed): catch logs,
\* finally clears loading.
InitializeAppCatch ==
  /\ client.auth.pc = "initialize"
  /\ client' = Mounted([client EXCEPT
                  !.loading = FALSE,
                  !.auth = [pc |-> "idle", email |-> "", valid |-> FALSE]])
  /\ UNCHANGED <<conv, now, users, emailIndex, expenses, steps, companies, rules, req, sent, accepted>>

\* LoginPage.handleSubmit calls signIn; authenticateUser tests the credentials
\* against DEMO_USERS (the three demo emails, each with its password) and, when
\* they match, asks for GET /user/:email.
SignInStart ==
  /\ AppContent(client) = "LoginPage"
  /\ client.auth.pc = "idle"
  /\ \E email \in SignInEmails, password \in BOOLEAN :
       LET valid == email \in DOMAIN DemoEmails /\ password IN
       client' = [client EXCEPT
                    !.loginError = "",
                    !.auth = [pc |-> "sign_in", email |-> email, valid |-> valid],
                    !.call = IF valid THEN [method |-> "GET", path |-> Lit(<<"user", email>>)]
                             ELSE @]
  /\ UNCHANGED <<conv, now, users, emailIndex, expenses, steps, companies, rules, req, sent, accepted>>

\* authenticateUser threw 'Invalid credentials': handleSignIn rethrows.
SignInInvalid ==
  /\ client.auth.pc = "sign_in"
  /\ ~client.auth.valid
  /\ client' = Mounted([client EXCEPT
                  !.loginError = "Invalid credentials",
                  !.auth = [pc |-> "idle", email |-> "", valid |-> FALSE]])
  /\ UNCHANGED <<conv, now, users, emailIndex, expenses, steps, companies, rules, req, sent, accepted>>

\* handleSignIn after the request resolved: setUser, localStorage.setItem; then
\* LoginPage navigates to the dashboard.
SignInSetUser ==
  /\ client.auth.pc = "sign_in"
  /\ client.auth.valid
  /\ \E userData \in UserBodies(client.auth.email) :
       client' = Mounted([client EXCEPT
                    !.user = userData,
                    !.storage = JSONStringify(userData),
                    !.currentPage = IF AppContent(client) = "LoginPage" THEN "dashboard" ELSE @,
                    !.auth = [pc |-> "idle", email |-> "", valid |-> FALSE]])
  /\ UNCHANGED <<conv, now, users, emailIndex, expenses, steps, companies, rules, req, sent, accepted>>

\* The request threw (a status that is not ok, or no answer).
SignInThrow ==
  /\ client.auth.pc = "sign_in"
  /\ client.auth.valid
  /\ client' = Mounted([client EXCEPT
                  !.loginError = "HTTP error",
                  !.auth = [pc |-> "idle", email |-> "", valid |-> FALSE]])
  /\ UNCHANGED <<conv, now, users, emailIndex, expenses, steps, companies, rules, req, sent, accepted>>

\* handleSignOut, from the Navbar's menu.
HandleSignOut ==
  /\ ~client.loading
  /\ client.user # NoUser
  /\ client' = Mounted([client EXCEPT !.user = NoUser, !.storage = NoItem])
  /\ UNCHANGED <<conv, now, users, emailIndex, expenses, steps, companies, rules, req, sent, accepted>>

\* refreshUser: nothing without user?.email, else GET /user/:email.
RefreshUserStart ==
  /\ ~client.loading
  /\ client.user # NoUser
  /\ client.auth.pc = "idle"
  /\ client' = [client EXCEPT
                  !.auth = [pc |-> "refresh", email |-> client.user.email, valid |-> TRUE],
                  !.call = [method |-> "GET", path |-> Lit(<<"user", client.user.email>>)]]
  /\ UNCHANGED <<conv, now, users, emailIndex, expenses, steps, companies, rules, req, sent, accepted>>

RefreshUserSetUser ==
  /\ client.auth.pc = "refresh"
  /\ \E userData \in UserBodies(client.auth.email) :
       client' = Mounted([client EXCEPT
                    !.user = userData,
                    !.storage = JSONStringify(userData),
                    !.auth = [pc |-> "idle", email |-> "", valid |-> FALSE]])
  /\ UNCHANGED <<conv, now, users, emailIndex, expenses, steps, companies, rules, req, sent, accepted>>

RefreshUserCatch ==
  /\ client.auth.pc = "refresh"
  /\ client' = Mounted([client EXCEPT
                  !.user = NoUser,
                  !.storage = NoItem,
                  !.auth = [pc |-> "idle", email |-> "", valid |-> FALSE]])
  /\ UNCHANGED <<conv, now, users, emailIndex, expenses, steps, companies, rules, req, sent, accepted>>

\* AppContent.handleNavigate: any page name is taken as it comes.
HandleNavigate ==
  /\ ~client.loading
  /\ \E page \in Pages :
       /\ page # client.currentPage
       /\ client' = Mounted([client EXCEPT !.currentPage = page])
  /\ UNCHANGED <<conv, now, users, emailIndex, expenses, steps, companies, rules, req, sent, accepted>>

\* ------------------------------------------------------------------ ApiClient method no component calls
\* ApiClient.processReceipt: this.request('/ocr', { method: 'POST', ... }).
ProcessReceipt ==
  /\ ~client.loading
  /\ client.call # [method |-> "POST", path |-> Lit(<<"ocr">>)]
  /\ client' = [client EXCEPT !.call = [method |-> "POST", path |-> Lit(<<"ocr">>)]]
  /\ UNCHANGED <<conv, now, users, emailIndex, expenses, steps, companies, rules, req, sent, accepted>>

\* ------------------------------------------------------------------ Dashboard
\* The dashboard loads the user's expenses.
DashboardLoad ==
  /\ AppContent(client) = "Dashboard"
  /\ client.call # [method |-> "GET", path |-> Lit(<<"expenses">>) \o <<client.user.id>>]
  /\ client' = [client EXCEPT
                  !.call = [method |-> "GET", path |-> Lit(<<"expenses">>) \o <<client.user.id>>]]
  /\ UNCHANGED <<conv, now, users, emailIndex, expenses, steps, companies, rules, req, sent, accepted>>

\* ------------------------------------------------------------------ ApprovalsPage
\* fetchPendingApprovals of the mount effect, which runs for a manager or an
\* admin: the list, or the catch; finally clears the page's loading.
FetchPendingApprovals ==
  /\ AppContent(client) = "ApprovalsPage"
  /\ client.pageLoading
  /\ client.user.role = "manager" \/ client.user.role = "admin"
  /\ \E ok \in BOOLEAN :
       client' = [client EXCEPT
                    !.approvals = IF ok THEN ListedSteps ELSE @,
                    !.pageLoading = FALSE,
                    !.call = [method |-> "GET", path |-> Lit(<<"approvals">>) \o <<client.user.id>>]]
  /\ UNCHANGED <<conv, now, users, emailIndex, expenses, steps, companies, rules, req, sent, accepted>>

\* The Approve and Reject buttons of a listed step: disabled={processingId === approval.id}.
ControlsEnabled(c, id) == c.processingId # id

\* handleApproval up to its first await: setProcessingId, POST /approvals/:approvalId.
HandleApprovalStart(h) ==
  /\ OnScreen(client) = "Pending Approvals"
  /\ client.decides[h].pc = "idle"
  /\ \A h2 \in 1..MaxHandlers : client.decides[h2].pc = "idle" => h <= h2
  /\ \E id \in client.approvals :
       /\ ControlsEnabled(client, id)
       /\ client' = [client EXCEPT
                       !.processingId = id,
                       !.decides[h] = [pc |-> "process", id |-> id],
                       !.call = [method |-> "POST", path |-> Lit(<<"approvals">>) \o <<id>>]]
  /\ UNCHANGED <<conv, now, users, emailIndex, expenses, steps, companies, rules, req, sent, accepted>>

\* processApproval resolved: the list is fetched again.
HandleApprovalProcessed(h) ==
  /\ client.decides[h].pc = "process"
  /\ client' = [client EXCEPT
                  !.decides[h].pc = "refresh",
                  !.call = [method |-> "GET", path |-> Lit(<<"approvals">>) \o <<client.user.id>>]]
  /\ UNCHANGED <<conv, now, users, emailIndex, expenses, steps, companies, rules, req, sent, accepted>>

\* processApproval threw: catch, then finally setProcessingId(null).
HandleApprovalCatch(h) ==
  /\ client.decides[h].pc = "process"
  /\ client' = [client EXCEPT !.processingId = NoId, !.decides[h] = [pc |-> "idle", id |-> NoId]]
  /\ UNCHANGED <<conv, now, users, emailIndex, expenses, steps, companies, rules, req, sent, accepted>>

\* fetchPendingApprovals returned (with the list without the decided step, or
\* after its own catch): finally setProcessingId(null).
HandleApprovalFinally(h) ==
  /\ client.decides[h].pc = "refresh"
  /\ \E ok \in BOOLEAN :
       client' = [client EXCEPT
                    !.approvals = IF ok THEN @ \ {client.decides[h].id} ELSE @,
                    !.processingId = NoId,
                    !.decides[h] = [pc |-> "idle", id |-> NoId]]
  /\ UNCHANGED <<conv, now, users, emailIndex, expenses, steps, companies, rules, req, sent, accepted>>

\* ------------------------------------------------------------------ ExpenseForm
\* handleSubmit up to its first await: setLoading(true), the conversion request.
HandleSubmitStart ==
  /\ AppContent(client) = "ExpenseForm"
  /\ ~client.formLoading
  /\ \E currency \in {"USD", "EUR"} :
       client' = [client EXCEPT
                    !.formLoading = TRUE,
                    !.formError = "",
                    !.form = "convert",
                    !.call = [method |-> "GET",
                              path |-> Lit(<<"convert", currency, FormCompanyCurrency, "12.5">>)]]
  /\ UNCHANGED <<conv, now, users, emailIndex, expenses, steps, companies, rules, req, sent, accepted>>

HandleSubmitConverted ==
  /\ client.form = "convert"
  /\ client' = [client EXCEPT
                  !.form = "create",
                  !.call = [method |-> "POST", path |-> Lit(<<"expenses">>)]]
  /\ UNCHANGED <<conv, now, users, emailIndex, expenses, steps, companies, rules, req, sent, accepted>>

\* createExpense resolved: the form is reset; finally setLoading(false).
HandleSubmitCreated ==
  /\ client.form = "create"
  /\ client' = [client EXCEPT !.formLoading = FALSE, !.form = "idle"]
  /\ UNCHANGED <<conv, now, users, emailIndex, expenses, steps, companies, rules, req, sent, accepted>>

\* A request of handleSubmit threw: setError; finally setLoading(false).
HandleSubmitCatchKeepsLoading ==
  /\ client.form \in {"convert", "create"}
  /\ client' = [client EXCEPT !.formError = "Failed to submit expense", !.form = "idle"]
  /\ UNCHANGED <<conv, now, users, emailIndex, expenses, steps, companies, rules, req, sent, accepted>>

HandleSubmitCatch ==
  /\ client.form \in {"convert", "create"}
  /\ client' = [client EXCEPT
                  !.formLoading = FALSE,
                  !.formError = "Failed to submit expense",
                  !.form = "idle"]
  /\ UNCHANGED <<conv, now, users, emailIndex, expenses, steps, companies, rules, req, sent, accepted>>

\* ------------------------------------------------------------------ OCRReceiptUpload
\* handleFileSelect with an image: setIsProcessing(true), POST /ocr/process-receipt.
HandleFileSelect ==
  /\ AppContent(client) = "ExpenseForm"
  /\ client.ocr < MaxHandlers
  /\ client' = [client EXCEPT
                  !.isProcessing = TRUE,
                  !.ocr = @ + 1,
                  !.call = [method |-> "POST", path |-> Lit(<<"ocr", "process-receipt">>)]]
  /\ UNCHANGED <<conv, now, users, emailIndex, expenses, steps, companies, rules, req, sent, accepted>>

\* The answer was read: setOcrResult(result); finally setIsProcessing(false).
HandleFileSelectResult ==
  /\ client.ocr > 0
  /\ \E success \in BOOLEAN :
       client' = [client EXCEPT
                    !.isProcessing = FALSE,
                    !.ocrResult = IF success THEN "success" ELSE "error",
                    !.ocr = @ - 1]
  /\ UNCHANGED <<conv, now, users, emailIndex, expenses, steps, companies, rules, req, sent, accepted>>

\* fetch or response.json() threw: 'Network error'; finally setIsProcessing(false).
HandleFileSelectCatch ==
  /\ client.ocr > 0
  /\ client' = [client EXCEPT
                  !.isProcessing = FALSE,
                  !.ocrResult = "Network error",
                  !.ocr = @ - 1]
  /\ UNCHANGED <<conv, now, users, emailIndex, expenses, steps, companies, rules, req, sent, accepted>>

\* ------------------------------------------------------------------ AdminPanel
\* loadData: GET /company, GET /users, GET /approval-rules one after the other;
\* setUsers when the answer is ok; finally setLoading(false).
LoadDataCompany ==
  /\ AppContent(client) = "AdminPanel"
  /\ client.panel = "company"
  /\ client' = [client EXCEPT
                  !.panel = "users",
                  !.call = [method |-> "GET", path |-> Lit(<<"company">>)]]
  /\ UNCHANGED <<conv, now, users, emailIndex, expenses, steps, companies, rules, req, sent, accepted>>

LoadDataUsers ==
  /\ client.panel = "users"
  /\ \E ok \in BOOLEAN :
       client' = [client EXCEPT
                    !.panelUsers = IF ok THEN DOMAIN DemoUsers ELSE @,
                    !.panel = "rules",
                    !.call = [method |-> "GET", path |-> Lit(<<"users">>)]]
  /\ UNCHANGED <<conv, now, users, emailIndex, expenses, steps, companies, rules, req, sent, accepted>>

LoadDataRules ==
  /\ client.panel = "rules"
  /\ client' = [client EXCEPT
                  !.panelLoading = FALSE,
                  !.panel = "idle",
                  !.call = [method |-> "GET", path |-> Lit(<<"approval-rules">>)]]
  /\ UNCHANGED <<conv, now, users, emailIndex, expenses, steps, companies, rules, req, sent, accepted>>

\* The list's users.map(user => ...): inside the callback user is the listed
\* user, the signed-in user of useAuth() is shadowed; the delete button is
\* rendered under user.id !== user?.id.
DeleteOffered(listed, signedIn) ==
  LET user == listed IN user.id # user.id


\* ------------------------------------------------------------------ specification
Next ==
  \/ Tick
  \/ \E r \in Slots : SetupStart(r)
  \/ \E r \in Slots : SetupCompany(r)
  \/ \E r \in Slots : SetupUser(r)
  \/ \E r \in Slots : SetupEmail(r)
  \/ \E r \in Slots : SetupRule(r)
  \/ \E r \in Slots : SetupExpense(r)
  \/ \E r \in Slots : SubmitStart(r)
  \/ \E r \in Slots : SubmitSetExpense(r)
  \/ \E r \in Slots : SubmitGetUser(r)
  \/ \E r \in Slots : SubmitSetStep(r)
  \/ \E r \in Slots : DecideStart(r)
  \/ \E r \in Slots : DecideGetStep(r)
  \/ \E r \in Slots : DecideSetStep(r)
  \/ \E r \in Slots : DecideGetExpense(r)
  \/ \E r \in Slots : DecideSetExpense(r)
  \/ \E r \in Slots : CreateUserStart(r)
  \/ \E r \in Slots : CreateUserSetUser(r)
  \/ \E r \in Slots : CreateUserSetEmail(r)
  \/ \E r \in Slots : DeleteUserStart(r)
  \/ \E r \in Slots : DeleteUserGet(r)
  \/ \E r \in Slots : DeleteUserDelUser(r)
  \/ \E r \in Slots : DeleteUserDelEmail(r)
  \/ \E r \in Slots : GetUserStart(r)
  \/ \E r \in Slots : GetUserGetEmail(r)
  \/ \E r \in Slots : GetUserGetUser(r)
  \/ \E r \in Slots : KvFail(r)

Spec == Init /\ [][Next]_vars

\* The same handlers with requests served one at a time: a request is accepted
\* only when no other request is in flight.
InFlight == {r \in Slots : ~Free(r)}
Serial == Cardinality(InFlight') <= 1 /\ accepted' <= MaxSerial
NextSeq ==
  \/ Tick /\ Serial
  \/ \E r \in Slots : SetupStart(r) /\ Serial
  \/ \E r \in Slots : SetupCompany(r) /\ Serial
  \/ \E r \in Slots : SetupUser(r) /\ Serial
  \/ \E r \in Slots : SetupEmail(r) /\ Serial
  \/ \E r \in Slots : SetupRule(r) /\ Serial
  \/ \E r \in Slots : SetupExpense(r) /\ Serial
  \/ \E r \in Slots : SubmitStart(r) /\ Serial
  \/ \E r \in Slots : SubmitSetExpense(r) /\ Serial
  \/ \E r \in Slots : SubmitGetUser(r) /\ Serial
  \/ \E r \in Slots : SubmitSetStep(r) /\ Serial
  \/ \E r \in Slots : DecideStart(r) /\ Serial
  \/ \E r \in Slots : DecideGetStep(r) /\ Serial
  \/ \E r \in Slots : DecideSetStep(r) /\ Serial
  \/ \E r \in Slots : DecideGetExpense(r) /\ Serial
  \/ \E r \in Slots : DecideSetExpense(r) /\ Serial
  \/ \E r \in Slots : CreateUserStart(r) /\ Serial
  \/ \E r \in Slots : CreateUserSetUser(r) /\ Serial
  \/ \E r \in Slots : CreateUserSetEmail(r) /\ Serial
  \/ \E r \in Slots : DeleteUserStart(r) /\ Serial
  \/ \E r \in Slots : DeleteUserGet(r) /\ Serial
  \/ \E r \in Slots : DeleteUserDelUser(r) /\ Serial
  \/ \E r \in Slots : DeleteUserDelEmail(r) /\ Serial
  \/ \E r \in Slots : GetUserStart(r) /\ Serial
  \/ \E r \in Slots : GetUserGetEmail(r) /\ Serial
  \/ \E r \in Slots : GetUserGetUser(r) /\ Serial
  \/ \E r \in Slots : KvFail(r) /\ Serial

SpecSeq == Init /\ [][NextSeq]_vars


\* One request in flight, up to MaxRequests requests.
SerialFlow == Cardinality(InFlight') <= 1

\* The handlers of the API as any client can call them (bodies of any
\* content), the company and approval-rule handlers included, served one at a
\* time.
NextApi ==
  \/ Tick /\ SerialFlow
  \/ \E r \in Slots : SubmitApiStart(r) /\ SerialFlow
  \/ \E r \in Slots : SubmitSetExpense(r) /\ SerialFlow
  \/ \E r \in Slots : SubmitGetUser(r) /\ SerialFlow
  \/ \E r \in Slots : SubmitSetStep(r) /\ SerialFlow
  \/ \E r \in Slots : DecideApiStart(r) /\ SerialFlow
  \/ \E r \in Slots : DecideGetStep(r) /\ SerialFlow
  \/ \E r \in Slots : DecideSetStep(r) /\ SerialFlow
  \/ \E r \in Slots : DecideGetExpense(r) /\ SerialFlow
  \/ \E r \in Slots : DecideSetExpense(r) /\ SerialFlow
  \/ \E r \in Slots : CreateCompanyStart(r) /\ SerialFlow
  \/ \E r \in Slots : CreateCompanySet(r) /\ SerialFlow
  \/ \E r \in Slots : GetCompanyStart(r) /\ SerialFlow
  \/ \E r \in Slots : GetCompanyScan(r) /\ SerialFlow
  \/ \E r \in Slots : GetCompanyReply(r) /\ SerialFlow
  \/ \E r \in Slots : CreateRuleStart(r) /\ SerialFlow
  \/ \E r \in Slots : CreateRuleSet(r) /\ SerialFlow
  \/ \E r \in Slots : GetRulesStart(r) /\ SerialFlow
  \/ \E r \in Slots : GetRulesScan(r) /\ SerialFlow
  \/ \E r \in Slots : KvFail(r) /\ SerialFlow

SpecApi == Init /\ [][NextApi]_vars

\* The approval workflow alone, served one at a time: submissions and decisions.
NextFlow ==
  \/ Tick /\ SerialFlow
  \/ \E r \in Slots : SubmitStart(r) /\ SerialFlow
  \/ \E r \in Slots : SubmitSetExpense(r) /\ SerialFlow
  \/ \E r \in Slots : SubmitGetUser(r) /\ SerialFlow
  \/ \E r \in Slots : SubmitSetStep(r) /\ SerialFlow
  \/ \E r \in Slots : DecideStart(r) /\ SerialFlow
  \/ \E r \in Slots : DecideGetStep(r) /\ SerialFlow
  \/ \E r \in Slots : DecideSetStep(r) /\ SerialFlow
  \/ \E r \in Slots : DecideGetExpense(r) /\ SerialFlow
  \/ \E r \in Slots : DecideSetExpense(r) /\ SerialFlow
  \/ \E r \in Slots : KvFail(r) /\ SerialFlow

SpecFlow == Init /\ [][NextFlow]_vars

\* The user administration alone, requests overlapping, no kv call failing:
\* setup, create-user, delete-user and the lookup by email.
NextUsers ==
  \/ Tick /\ accepted' <= MaxRequests
  \/ \E r \in Slots : SetupStart(r)
  \/ \E r \in Slots : SetupCompany(r)
  \/ \E r \in Slots : SetupUser(r)
  \/ \E r \in Slots : SetupEmail(r)
  \/ \E r \in Slots : SetupRule(r)
  \/ \E r \in Slots : SetupExpense(r)
  \/ \E r \in Slots : CreateUserStart(r)
  \/ \E r \in Slots : CreateUserSetUser(r)
  \/ \E r \in Slots : CreateUserSetEmail(r)
  \/ \E r \in Slots : DeleteUserStart(r)
  \/ \E r \in Slots : DeleteUserGet(r)
  \/ \E r \in Slots : DeleteUserDelUser(r)
  \/ \E r \in Slots : DeleteUserDelEmail(r)
  \/ \E r \in Slots : GetUserStart(r)
  \/ \E r \in Slots : GetUserGetEmail(r)
  \/ \E r \in Slots : GetUserGetUser(r)

SpecUsers == Init /\ [][NextUsers]_vars

\* ------------------------------------------------------------------ the client alone
\* The browser: the user types, clicks and reloads, requests resolve or throw.
NextClient ==
  \/ Reload
  \/ InitializeAppRestore
  \/ InitializeAppCatch
  \/ SignInStart
  \/ SignInInvalid
  \/ SignInSetUser
  \/ SignInThrow
  \/ HandleSignOut
  \/ RefreshUserStart
  \/ RefreshUserSetUser
  \/ RefreshUserCatch
  \/ HandleNavigate
  \/ ProcessReceipt
  \/ DashboardLoad
  \/ FetchPendingApprovals
  \/ \E h \in 1..MaxHandlers : HandleApprovalStart(h)
  \/ \E h \in 1..MaxHandlers : HandleApprovalProcessed(h)
  \/ \E h \in 1..MaxHandlers : HandleApprovalCatch(h)
  \/ \E h \in 1..MaxHandlers : HandleApprovalFinally(h)
  \/ HandleSubmitStart
  \/ HandleSubmitConverted
  \/ HandleSubmitCreated
  \/ HandleSubmitCatch
  \/ HandleFileSelect
  \/ HandleFileSelectResult
  \/ HandleFileSelectCatch
  \/ LoadDataCompany
  \/ LoadDataUsers
  \/ LoadDataRules

SpecClient == Init /\ [][NextClient]_vars

\* The handlers that set a busy flag, with what it takes to reach their pages.
NextBusy ==
  \/ Reload
  \/ InitializeAppRestore
  \/ InitializeAppCatch
  \/ SignInStart
  \/ SignInInvalid
  \/ SignInSetUser
  \/ SignInThrow
  \/ HandleSignOut
  \/ HandleNavigate
  \/ FetchPendingApprovals
  \/ \E h \in 1..MaxHandlers : HandleApprovalStart(h)
  \/ \E h \in 1..MaxHandlers : HandleApprovalProcessed(h)
  \/ \E h \in 1..MaxHandlers : HandleApprovalCatch(h)
  \/ \E h \in 1..MaxHandlers : HandleApprovalFinally(h)
  \/ HandleSubmitStart
  \/ HandleSubmitConverted
  \/ HandleSubmitCreated
  \/ HandleSubmitCatch
  \/ HandleFileSelect
  \/ HandleFileSelectResult
  \/ HandleFileSelectCatch

\* Every request the browser has sent is answered or fails in the end, so a
\* handler waiting on one goes on.
SpecClientLive ==
  /\ Init /\ [][NextBusy]_vars
  /\ WF_vars(InitializeAppRestore \/ InitializeAppCatch)
  /\ WF_vars(HandleSubmitConverted \/ HandleSubmitCreated \/ HandleSubmitCatch)
  /\ WF_vars(HandleFileSelectResult \/ HandleFileSelectCatch)
  /\ \A h \in 1..MaxHandlers :
       WF_vars(HandleApprovalProcessed(h) \/ HandleApprovalCatch(h) \/ HandleApprovalFinally(h))

\* ------------------------------------------------------------------ the conversions alone
\* One conversion request (amount, from, to) is handed to each implementation;
\* an implementation may be asked again with the same input.
InitConv ==
  /\ now = 0
  /\ users = Empty
  /\ emailIndex = Empty
  /\ expenses = Empty
  /\ steps = Empty
  /\ companies = Empty
  /\ rules = Empty
  /\ req = [r \in Slots |-> IdleReq]
  /\ sent = [op |-> "none", code |-> 0]
  /\ accepted = 0
  /\ \E a \in ConvAmounts, f \in ConvCurrencies, t \in ConvCurrencies :
       conv = [NoConv EXCEPT !.amount = a, !.from = f, !.to = t]
  /\ client = LoadedClient

ConvertOnServer ==
  /\ conv' = [conv EXCEPT !.server = ServerConvert(conv.amount, conv.from, conv.to)]
  /\ UNCHANGED <<client, now, users, emailIndex, expenses, steps, companies, rules, req, sent, accepted>>

ConvertInClient ==
  /\ conv' = [conv EXCEPT !.client = ClientConvert(conv.amount, conv.from, conv.to)]
  /\ UNCHANGED <<client, now, users, emailIndex, expenses, steps, companies, rules, req, sent, accepted>>

ConvertInWidget ==
  /\ \E q \in WidgetConvert(conv.amount, conv.from, conv.to) :
       conv' = [conv EXCEPT !.widget = q]
  /\ UNCHANGED <<client, now, users, emailIndex, expenses, steps, companies, rules, req, sent, accepted>>

NextConv ==
  \/ ConvertOnServer
  \/ ConvertInClient
  \/ ConvertInWidget

SpecConv == InitConv /\ [][NextConv]_vars

\* ------------------------------------------------------------------ claims
\* Request r takes a step of its handler.
Steps(r) == req'[r] # req[r]
\* Request r answers with status code c in this step.
Responds(r, c) == ~Free(r) /\ req'[r] = IdleReq /\ sent' = [op |-> req[r].op, code |-> c]
Quiet == \A r \in Slots : Free(r)
\* The manager assigned to a user record, under either spelling of the field.
AssignedManager(user) == IF user.manager_id # NoId THEN user.manager_id ELSE user.managerId
\* Expenses created by POST /expenses.
Submitted == {e \in DOMAIN expenses : e[1] = "expense-"}
StepsOf(e) == {s \in DOMAIN steps : steps[s].expense_id = e}

\* C1: a POST /expenses that does not fail, for an employee whose record has an
\* assigned manager (seeded by POST /setup or created by POST /users), builds
\* one step (sequence 1, pending, the new expense's id, that manager) and
\* writes exactly that step.
C1_SubmitCreatesManagerStep ==
  [][\A r \in Slots :
       /\ ( /\ req[r].pc = "submit_get_user"
            /\ Steps(r)
            /\ ~Responds(r, 500)
            /\ req[r].id \in DOMAIN users
            /\ AssignedManager(users[req[r].id]) # NoId )
          => /\ req'[r].pc = "submit_set_step"
             /\ req'[r].step =
                  [id |-> ApprovalIdAt(now), expense_id |-> req[r].exp.id,
                   approver_id |-> AssignedManager(users[req[r].id]),
                   status |-> "pending", sequence |-> 1,
                   comments |-> Undefined, decided_at |-> NoTime]
       /\ (req[r].pc = "submit_set_step" /\ Responds(r, 200))
          => steps' = KvSet(steps, req[r].step.id, req[r].step)
    ]_vars

\* C2: a POST /expenses for an employee without a manager, or for an employee
\* id with no user record, writes the expense with status pending, writes no
\* approval step and answers 200 with the expense persisted.
C2_SubmitWithoutManager ==
  [][\A r \in Slots :
       /\ (req[r].pc = "submit_set_expense" /\ Steps(r) /\ ~Responds(r, 500))
          => /\ expenses' = KvSet(expenses, req[r].exp.id, req[r].exp)
             /\ expenses'[req[r].exp.id].status = "pending"
             /\ expenses'[req[r].exp.id].employee_id = req[r].id
       /\ ( /\ req[r].pc = "submit_get_user"
            /\ Steps(r)
            /\ ~Responds(r, 500)
            /\ \/ req[r].id \notin DOMAIN users
               \/ AssignedManager(KvGet(users, req[r].id, NoUser)) = NoId )
          => /\ Responds(r, 200)
             /\ steps' = steps
             /\ req[r].exp.id \in DOMAIN expenses'
             /\ expenses'[req[r].exp.id].status = "pending"
    ]_vars

C2_Witness ==
  /\ Quiet
  /\ sent = [op |-> "submit", code |-> 200]
  /\ steps = Empty
  /\ \E e \in Submitted : expenses[e].status = "pending"

\* C3: a decide request with outcome O that runs alone and answers 200 leaves
\* the step with status O, the comment given (null for an empty one) and a
\* decision timestamp, and leaves the step's expense with status O.
C3_DecideSetsStepAndExpense ==
  [][\A r \in Slots :
       (req[r].op = "decide" /\ Responds(r, 200))
       => /\ req[r].id \in DOMAIN steps'
          /\ LET s == steps'[req[r].id] IN
               /\ s.status = req[r].outcome
               /\ s.comments = (IF req[r].comments = "" THEN Null ELSE req[r].comments)
               /\ s.decided_at \in Clock
               /\ s.expense_id \in DOMAIN expenses'
               /\ expenses'[s.expense_id].status = req[r].outcome
    ]_vars

C3_Witness ==
  /\ Quiet
  /\ sent = [op |-> "decide", code |-> 200]
  /\ \E s \in DOMAIN steps :
       /\ steps[s].status = "approved"
       /\ steps[s].comments = "ok"
       /\ steps[s].decided_at # NoTime
       /\ expenses[steps[s].expense_id].status = "approved"

\* C4: a decide request for a step id that is not in the store answers 404
\* (unless the store's read itself fails) and changes no record of the store.
C4_DecideMissingStep ==
  [][\A r \in Slots :
       (req[r].pc = "decide_get_step" /\ Steps(r) /\ req[r].id \notin DOMAIN steps)
       => /\ store' = store
          /\ Responds(r, 404) \/ Responds(r, 500)
    ]_vars

C4_Witness ==
  /\ sent = [op |-> "decide", code |-> 404]
  /\ Quiet
  /\ steps = Empty

\* C5: in every reachable state every expense that has an approval step has
\* the status of that step.
C5_ExpenseStatusEqualsStepStatus ==
  \A s \in DOMAIN steps :
    steps[s].expense_id \in DOMAIN expenses
    => expenses[steps[s].expense_id].status = steps[s].status

\* C6: when the later of two overlapping decide requests on one step answers
\* 200 (the other has answered 200 and nothing else is in flight), the step
\* and its expense carry the same status: the last write wins on both.
C6_LastWriteWinsOnBoth ==
  [][\A r \in Slots :
       ( /\ req[r].op = "decide"
         /\ Responds(r, 200)
         /\ sent = [op |-> "decide", code |-> 200]
         /\ \A r2 \in Slots \ {r} : Free(r2)
         /\ req[r].id \in DOMAIN steps
         /\ steps[req[r].id].status \in DecideOutcomes )
       => steps'[req[r].id].status = expenses'[steps'[req[r].id].expense_id].status
    ]_vars

\* C7: once a step has been decided, no later request changes its status,
\* comments or decision timestamp.
C7_StepDecidedOnce ==
  [][\A s \in DOMAIN steps :
       steps[s].decided_at # NoTime
       => /\ s \in DOMAIN steps'
          /\ steps'[s].status = steps[s].status
          /\ steps'[s].comments = steps[s].comments
          /\ steps'[s].decided_at = steps[s].decided_at
    ]_vars

\* C8: an expense record is never deleted, and its status changes only in the
\* expense write of a decide request on one of its approval steps.
C8_ExpenseStatusOnlyByDecide ==
  [][\A e \in DOMAIN expenses :
       /\ e \in DOMAIN expenses'
       /\ expenses'[e].status # expenses[e].status
          => \E r \in Slots :
               /\ req[r].pc = "decide_set_expense"
               /\ Steps(r)
               /\ req[r].step.expense_id = e
               /\ req[r].id \in StepsOf(e)
    ]_vars

\* C9: in every reachable state each expense has at most one approval step
\* referencing it.
C9_AtMostOneStepPerExpense ==
  \A e \in DOMAIN expenses : Cardinality(StepsOf(e)) <= 1

\* C10: a DELETE /users/:userId that answers 200 leaves neither user:<id> nor
\* user:email:<email of the deleted record>; a GET /user/:email that finds no
\* user:email:<email> answers 404; a DELETE for an id with no user:<id> answers
\* 404 and changes nothing (each unless the store's read itself fails).
C10_DeleteRemovesBothRecords ==
  [][\A r \in Slots :
       /\ (req[r].op = "deleteUser" /\ Responds(r, 200))
          => /\ req[r].id \notin DOMAIN users'
             /\ req[r].usr.email \notin DOMAIN emailIndex'
             /\ req[r].usr.id = req[r].id
       /\ (req[r].pc = "delete_get_user" /\ Steps(r) /\ req[r].id \notin DOMAIN users)
          => /\ store' = store
             /\ Responds(r, 404) \/ Responds(r, 500)
       /\ (req[r].pc = "lookup_get_email" /\ Steps(r) /\ req[r].email \notin DOMAIN emailIndex)
          => Responds(r, 404) \/ Responds(r, 500)
    ]_vars

C10_Witness ==
  /\ Quiet
  /\ sent = [op |-> "deleteUser", code |-> 200]
  /\ EmployeeId \notin DOMAIN users
  /\ "employee@company.com" \notin DOMAIN emailIndex

\* The rate the table of GET /convert and of the client helper holds for a
\* pair, 1 for a pair without an entry.
TableRate(from, to) ==
  IF Entry(ServerRates, from, to) # 0 THEN Entry(ServerRates, from, to) ELSE RateUnit
\* r is amount * rate rounded to two decimal places, a half going up.
IsRounded(r, amount, rate) ==
  /\ r % (AmountUnit \div 100) = 0
  /\ r * RateUnit - amount * rate <= ((AmountUnit \div 100) * RateUnit) \div 2
  /\ amount * rate - r * RateUnit < ((AmountUnit \div 100) * RateUnit) \div 2
\* The amount has at most two decimal places.
WholeCents(amount) == amount % (AmountUnit \div 100) = 0

C13_SameCurrencyUnchanged ==
  conv.from = conv.to
  => /\ conv.server # NoAmount => conv.server = conv.amount
     /\ conv.client # NoAmount => conv.client = conv.amount

\* C14: in GET /convert and in the CurrencyConverter component, a conversion
\* asked again with the same (amount, from, to) returns what it returned
\* before, and a pair without a table entry is converted at rate 1.
C14_DeterministicRateOne ==
  [][/\ conv.server # NoAmount => conv'.server = conv.server
     /\ conv.widget # NoQuotient => conv'.widget = conv.widget
     /\ (conv'.server # NoAmount /\ Entry(ServerRates, conv.from, conv.to) = 0)
        => IsRounded(conv'.server, conv.amount, RateUnit)
     /\ (conv'.widget # NoQuotient /\ Entry(WidgetRates, conv.from, conv.to) = 0)
        => conv'.widget[1] = conv.amount * conv'.widget[2]
    ]_vars

\* C11 as stated: when the store holds one company record, the expense a
\* submission writes carries amount_in_company_currency =
\* convert(amount, currency, C) for the currency C of that record.
C11_ConvertedToCompanyCurrency ==
  [][\A r \in Slots :
       ( /\ req[r].pc = "submit_set_expense"
         /\ Steps(r)
         /\ ~Responds(r, 500)
         /\ Cardinality(DOMAIN companies) = 1 )
       => \A c \in DOMAIN companies :
            expenses'[req[r].exp.id].amount_in_company_currency =
              ServerConvert(req[r].exp.amount, req[r].exp.currency, companies[c].currency)
    ]_vars

\* C15 as stated: a POST /expenses whose body lacks the employee id writes no
\* expense and no approval step and does not answer 200.
C15_MissingFieldRejected ==
  [][\A r \in Slots :
       (req[r].op = "submit" /\ req[r].exp.employee_id = NoId /\ Steps(r))
       => /\ expenses' = expenses
          /\ steps' = steps
          /\ ~Responds(r, 200)
    ]_vars

\* C16: when the store fails a submit after its expense write (at the user
\* read or the step write), the request answers 500, no record changes and
\* the expense written stays in the store; when the store fails a decide after
\* its step write (at the expense read or the expense write), the request
\* answers 500, no record changes, the step stays as decided and the
\* expense is as it was.
C16_NoRollback ==
  [][\A r \in Slots :
       /\ (req[r].pc \in {"submit_get_user", "submit_set_step"} /\ Steps(r)
           /\ req'[r] = IdleReq /\ sent'.code # 200)
          => /\ Responds(r, 500)
             /\ store' = store
             /\ req[r].exp.id \in DOMAIN expenses'
             /\ expenses'[req[r].exp.id] = req[r].exp
       /\ (req[r].pc \in {"decide_get_expense", "decide_set_expense"} /\ Steps(r)
           /\ req'[r] = IdleReq /\ sent'.code # 200)
          => /\ Responds(r, 500)
             /\ store' = store
             /\ steps'[req[r].id] = req[r].step
             /\ steps'[req[r].id].status = req[r].outcome
             /\ steps'[req[r].id].decided_at # NoTime
             /\ req[r].pc = "decide_set_expense"
                => expenses'[req[r].step.expense_id] =
                     [req[r].exp EXCEPT !.status = expenses[req[r].step.expense_id].status]
    ]_vars

C16_Witness ==
  /\ Quiet
  /\ sent = [op |-> "submit", code |-> 500]
  /\ \E e \in Submitted :
       /\ StepsOf(e) = {}
       /\ expenses[e].employee_id \in DOMAIN users
       /\ users[expenses[e].employee_id].manager_id # NoId

\* C17: every step of a submit or decide request leaves the approval_rule
\* records alone, and what it writes to the expenses and the steps, its next
\* position and its answer are determined by the request and by the user,
\* step and expense records alone, whatever approval_rule records the store
\* holds.
C17_RulesNeverInfluence ==
  [][\A r \in Slots :
       (req[r].op \in {"submit", "decide"} /\ Steps(r) /\ ~Responds(r, 500))
       => /\ rules' = rules
          /\ req[r].pc = "submit_set_expense"
             => /\ expenses' = KvSet(expenses, req[r].exp.id, req[r].exp)
                /\ steps' = steps
                /\ req'[r] = [req[r] EXCEPT !.pc = "submit_get_user"]
          /\ req[r].pc = "submit_get_user"
             => /\ expenses' = expenses
                /\ steps' = steps
                /\ IF req[r].id \in DOMAIN users /\ users[req[r].id].manager_id # NoId
                     THEN req'[r] =
                            [req[r] EXCEPT
                               !.pc = "submit_set_step",
                               !.step = [id |-> ApprovalIdAt(now),
                                         expense_id |-> req[r].exp.id,
                                         approver_id |-> users[req[r].id].manager_id,
                                         status |-> "pending", sequence |-> 1,
                                         comments |-> Undefined, decided_at |-> NoTime]]
                     ELSE Responds(r, 200)
          /\ req[r].pc = "submit_set_step"
             => /\ expenses' = expenses
                /\ steps' = KvSet(steps, req[r].step.id, req[r].step)
                /\ Responds(r, 200)
          /\ req[r].pc = "decide_get_step"
             => /\ expenses' = expenses
                /\ steps' = steps
                /\ IF req[r].id \in DOMAIN steps
                     THEN req'[r] =
                            [req[r] EXCEPT
                               !.pc = "decide_set_step",
                               !.step = [steps[req[r].id] EXCEPT
                                           !.status = req[r].outcome,
                                           !.comments = (IF req[r].comments = ""
                                                           THEN Null
                                                           ELSE req[r].comments),
                                           !.decided_at = now]]
                     ELSE Responds(r, 404)
          /\ req[r].pc = "decide_set_step"
             => /\ expenses' = expenses
                /\ steps' = KvSet(steps, req[r].id, req[r].step)
                /\ req'[r] = [req[r] EXCEPT !.pc = "decide_get_expense"]
          /\ req[r].pc = "decide_get_expense"
             => /\ expenses' = expenses
                /\ steps' = steps
                /\ IF req[r].step.expense_id \in DOMAIN expenses
                     THEN req'[r] =
                            [req[r] EXCEPT
                               !.pc = "decide_set_expense",
                               !.exp = [expenses[req[r].step.expense_id] EXCEPT
                                          !.status = req[r].outcome]]
                     ELSE Responds(r, 200)
          /\ req[r].pc = "decide_set_expense"
             => /\ expenses' = KvSet(expenses, req[r].step.expense_id, req[r].exp)
                /\ steps' = steps
                /\ Responds(r, 200)
    ]_vars

C17_Witness ==
  /\ Quiet
  /\ sent = [op |-> "decide", code |-> 200]
  /\ \E k \in DOMAIN rules : k[1] = "rule-"
  /\ \E s \in DOMAIN steps :
       /\ steps[s].status = "approved"
       /\ expenses[steps[s].expense_id].status = "approved"

\* C18 as stated: the store holds at most one company record, and the body
\* of a GET /company is that record.
C18_AtMostOneCompany ==
  /\ Cardinality(DOMAIN companies) <= 1
  /\ \A r \in Slots :
       req[r].pc = "company_reply"
       => \A k \in DOMAIN companies : req[r].company = companies[k]

\* C19 as stated: every expense and every approval step in the store has a
\* status among pending, approved and rejected, and the expense a submit is
\* about to write has status pending.
C19_StatusInDomain ==
  /\ \A e \in DOMAIN expenses : expenses[e].status \in {"pending", "approved", "rejected"}
  /\ \A k \in DOMAIN steps : steps[k].status \in {"pending", "approved", "rejected"}
  /\ \A r \in Slots : req[r].pc = "submit_set_expense" => req[r].exp.status = "pending"

\* C20: a decide on a step that has been decided with another outcome is not
\* refused (it goes on to the step write unless the store fails), its step
\* write replaces the step's status, comment and timestamp with those of this
\* request, and its expense write replaces the status the earlier decision
\* gave the expense with the new outcome.
C20_SecondDecideOverwrites ==
  [][\A r \in Slots :
       /\ ( /\ req[r].pc = "decide_get_step"
            /\ Steps(r)
            /\ req[r].id \in DOMAIN steps
            /\ steps[req[r].id].decided_at # NoTime
            /\ steps[req[r].id].status # req[r].outcome )
          => \/ Responds(r, 500)
             \/ /\ req'[r].pc = "decide_set_step"
                /\ req'[r].step.status = req[r].outcome
                /\ req'[r].step.comments = (IF req[r].comments = "" THEN Null ELSE req[r].comments)
                /\ req'[r].step.decided_at = now
       /\ ( /\ req[r].pc = "decide_set_step"
            /\ Steps(r)
            /\ ~Responds(r, 500)
            /\ steps[req[r].id].decided_at # NoTime )
          => /\ steps'[req[r].id].status = req[r].outcome
             /\ steps'[req[r].id].comments = req[r].step.comments
             /\ steps'[req[r].id].decided_at = req[r].step.decided_at
       /\ ( /\ req[r].pc = "decide_set_expense"
            /\ Steps(r)
            /\ ~Responds(r, 500)
            /\ expenses[req[r].step.expense_id].status \in DecideOutcomes )
          => /\ Responds(r, 200)
             /\ expenses'[req[r].step.expense_id].status = req[r].outcome
    ]_vars

\* The second decide has rewritten the step and is about to rewrite the
\* expense the first decide approved.
C20_Witness ==
  \E r \in Slots :
    /\ req[r].pc = "decide_set_expense"
    /\ req[r].outcome = "rejected"
    /\ steps[req[r].id].status = "rejected"
    /\ expenses[req[r].step.expense_id].status = "approved"
    /\ req[r].exp.status = "rejected"

C24_PendingExpenseHasStep ==
  Quiet
  => \A e \in DOMAIN expenses :
       ( /\ expenses[e].status = "pending"
         /\ expenses[e].employee_id \in DOMAIN users
         /\ users[expenses[e].employee_id].manager_id # NoId )
       => \E k \in PendingApprovals(users[expenses[e].employee_id].manager_id) :
            steps[k].expense_id = e

\* The email index and the user records name each other.
EmailIndexConsistent ==
  /\ \A e \in DOMAIN emailIndex :
       emailIndex[e] \in DOMAIN users /\ users[emailIndex[e]].email = e
  /\ \A u \in DOMAIN users :
       users[u].email \in DOMAIN emailIndex /\ emailIndex[users[u].email] = u

\* C25 as stated: whenever no request is in flight every user:email:<e>
\* entry names an existing user record with email e and every user record
\* is the one its email's entry names; a GET /user/:email answers 200 only
\* with an existing user record as its body.
C25_EmailIndexConsistent ==
  [][/\ Quiet' => EmailIndexConsistent'
     /\ \A r \in Slots :
          (req[r].pc = "lookup_get_user" /\ Responds(r, 200))
          => req[r].id \in DOMAIN users
    ]_vars

\* C26 as stated: the expense write of a submit never replaces an expense
\* record that is in the store, and its step write never replaces a step
\* that is in the store.
C26_SubmitIdsFresh ==
  [][\A r \in Slots :
       /\ (req[r].pc = "submit_set_expense" /\ Steps(r) /\ ~Responds(r, 500))
          => req[r].exp.id \notin DOMAIN expenses
       /\ (req[r].pc = "submit_set_step" /\ Steps(r) /\ ~Responds(r, 500))
          => req[r].step.id \notin DOMAIN steps
    ]_vars

\* C22 as stated: the request the client has sent last has a method and a
\* path that a route of the server serves.
C22_EveryCallServed == Served(client.call)

\* C23: the approvals list is on screen only for a signed-in manager or admin
\* and the admin panel only for a signed-in admin.
C23_PagesByRole ==
  /\ OnScreen(client) = "Pending Approvals" => client.user.role \in {"manager", "admin"}
  /\ AppContent(client) = "ApprovalsPage" => client.user.role \in {"manager", "admin"}
  /\ AppContent(client) = "AdminPanel" => client.user.role = "admin"
\* An employee who went to the settings page is
\* shown Access Denied.
C23_Witness ==
  /\ client.user = DemoUsers[EmployeeId]
  /\ client.currentPage = "settings"
  /\ OnScreen(client) = "Access Denied"

\* C27 as stated: while the POST of a decide is in flight the controls of its
\* step are disabled, and no second decide for the same step is in flight.
C27_ControlsDisabledInFlight ==
  \A h \in 1..MaxHandlers :
    client.decides[h].pc = "process"
    => /\ ~ControlsEnabled(client, client.decides[h].id)
       /\ \A h2 \in (1..MaxHandlers) \ {h} :
            ~(client.decides[h2].pc = "process" /\ client.decides[h2].id = client.decides[h].id)

\* The user the stored item holds: none without item.
StoredUser(c) == IF c.storage = NoItem THEN NoUser ELSE JSONParse(c.storage)

\* C28 as stated: after initializeApp and after each completed signIn,
\* signOut and refreshUser the session user is the user local storage holds
\* (none when it holds nothing); a sign-in that fails changes neither.
C28_SessionMatchesStorage ==
  [][/\ (~client'.loading /\ client'.auth.pc = "idle")
        => StoredUser(client') = client'.user
     /\ (client.auth.pc = "sign_in" /\ client'.auth.pc = "idle" /\ client'.loginError # "")
        => (client'.user = client.user /\ client'.storage = client.storage)
    ]_vars

\* C29: each busy flag that is set is cleared later, whether the request behind
\* it succeeds or fails: AuthProvider.loading, ExpenseForm.loading,
\* ApprovalsPage.processingId, OCRReceiptUpload.isProcessing.
C29_BusyFlagsCleared ==
  /\ client.loading ~> ~client.loading
  /\ client.formLoading ~> ~client.formLoading
  /\ (client.processingId # NoId) ~> (client.processingId = NoId)
  /\ client.isProcessing ~> ~client.isProcessing
\* A submit has failed, an OCR request has failed, and no flag is set.
C29_Witness ==
  /\ client.formError # ""
  /\ client.ocrResult = "Network error"
  /\ ~client.loading /\ ~client.formLoading /\ ~client.isProcessing
  /\ client.form = "idle" /\ client.ocr = 0

\* C30 as stated: once the admin panel has loaded its list, the delete control
\* is offered for exactly the listed users that are not the signed-in admin.
C30_DeleteOfferedForOthers ==
  (AppContent(client) = "AdminPanel" /\ ~client.panelLoading)
  => \A u \in client.panelUsers :
       DeleteOffered(DemoUsers[u], client.user) <=> (u # client.user.id)

====
